---- MODULE Spec2Model ----
(***************************************************************************)
(* The messaging data layer of the example app: the mock message service   *)
(* (cache, forward and backward pagination, sendMessage, clearCache) and   *)
(* the ConversationSheet controller that pages a conversation's history    *)
(* and sends messages, and the MessagesExampleSheet controller that pages  *)
(* the list of conversations.                                              *)
(*                                                                         *)
(* Strings that the code parses, formats or trims (cursors, input text)    *)
(* are sequences of one-character strings.  generateId() is a fresh        *)
(* counter: every call returns a token no earlier call returned.           *)
(***************************************************************************)
EXTENDS Integers, Sequences, FiniteSets

VARIABLES
    messageCache,          \* Map cacheKey -> MessagePreview[]
    chatCache,             \* Map cacheKey -> ChatMessage[]
    generated,             \* number of generateId() calls made so far
    clock,                 \* Date.now(), in milliseconds since the service was loaded
    variants,              \* the two ConversationSheet variants run side by side
    chain,                 \* a caller following a cursor chain
    resp,                  \* the PaginatedResponse of the latest service call
    calls,                 \* service calls in flight (awaiting delay)
    served,                \* every item a service call has returned, with its offset
    sent,                  \* every message sendMessage has returned
    epoch,                 \* number of clearCache() calls made so far
    started,               \* number of asynchronous calls started so far
    selectedConversation,  \* ConversationSheet state: id of the conversation
    chatMessages,
    chatLoading,
    chatLoadingMore,
    chatHasMore,
    chatCursor,
    inputText,
    chatLoadingMoreRef,    \* chatLoadingMoreRef.current
    rendered,              \* the state values the callbacks of the last render close over
    presented,             \* the sheet is on screen (sheetRef.current.present())
    tasks,                 \* the sheet's asynchronous tasks awaiting their service call
    last,                  \* the latest present, loadMore or send call or settled task
    itemCount,             \* TestScreen state, the itemCount prop of MessagesExampleSheet
    messages,              \* MessagesExampleSheet state
    messagesLoading,
    messagesHasMore,
    messagesCursor,
    messagesLoadingRef,    \* messagesLoadingRef.current
    listRendered,          \* what the last render of MessagesExampleSheet closed over
    listTasks,             \* the list's asynchronous tasks awaiting their service call
    listLast               \* the latest loadMessages or loadMoreMessages call or settled task

cacheVars == <<messageCache, chatCache, generated>>
serviceVars == <<chain, resp, calls, served, sent, epoch, clock, variants>>
sheetVars == <<selectedConversation, chatMessages, chatLoading, chatLoadingMore,
               chatHasMore, chatCursor, inputText, chatLoadingMoreRef, rendered,
               presented, tasks, last>>
listVars == <<itemCount, messages, messagesLoading, messagesHasMore,
              messagesCursor, messagesLoadingRef, listRendered, listTasks,
              listLast>>
vars == <<messageCache, chatCache, generated, clock, variants, chain, resp, calls, served,
          sent, epoch, started, selectedConversation, chatMessages, chatLoading,
          chatLoadingMore, chatHasMore, chatCursor, inputText,
          chatLoadingMoreRef, rendered, presented, tasks, last, itemCount,
          messages, messagesLoading, messagesHasMore, messagesCursor,
          messagesLoadingRef, listRendered, listTasks, listLast>>

----------------------------------------------------------------------------
(* Bounds of the model *)

MaxCount == 21
MaxProbe == 2
MaxCalls == 2
MaxClears == 1
MaxTasks == 3
MaxItemCount == 25
MaxListTasks == 4
MaxPagingTasks == 3
MaxClock == 2
MaxChainSends == 2

(* Program constants *)

PAGE_CAP == 20
OVERSIZE == 3
CHAT_COUNT == 20
DEFAULT_ITEM_COUNT == 20
ITEM_STEP == 5

----------------------------------------------------------------------------
(* JavaScript values *)

Min(a, b) == IF a < b THEN a ELSE b
Max(a, b) == IF a > b THEN a ELSE b

Digits == <<"0", "1", "2", "3", "4", "5", "6", "7", "8", "9">>
IsDigit(c) == \E d \in 1..10 : Digits[d] = c
DigitValue(c) == (CHOOSE d \in 1..10 : Digits[d] = c) - 1

RECURSIVE NatToString(_)
NatToString(n) ==
    IF n < 10 THEN <<Digits[n + 1]>>
    ELSE NatToString(n \div 10) \o <<Digits[(n % 10) + 1]>>

\* Number.prototype.toString() of an integer
ToString(n) == IF n < 0 THEN <<"-">> \o NatToString(-n) ELSE NatToString(n)

RECURSIVE ParseDigits(_, _)
ParseDigits(s, acc) ==
    IF s = <<>> \/ ~IsDigit(Head(s)) THEN acc
    ELSE ParseDigits(Tail(s), acc * 10 + DigitValue(Head(s)))

\* parseInt(s, 10) of a string that starts with an optional sign and a digit
ParseInt(s) ==
    IF Head(s) = "-" THEN -ParseDigits(Tail(s), 0) ELSE ParseDigits(s, 0)

\* An optional string (cursor?: string)
Undefined == [defined |-> FALSE, chars |-> <<>>]
Str(s) == [defined |-> TRUE, chars |-> s]
\* the truthiness test of `cursor ? a : b`: undefined and "" are falsy
Truthy(c) == c.defined /\ c.chars # <<>>

\* Array.prototype.slice(start, end)
Slice(arr, start, end) ==
    LET len == Len(arr)
        k == IF start < 0 THEN Max(len + start, 0) ELSE Min(start, len)
        final == IF end < 0 THEN Max(len + end, 0) ELSE Min(end, len)
    IN SubSeq(arr, k + 1, final)

RECURSIVE Concat(_)
Concat(ss) == IF ss = <<>> THEN <<>> ELSE Head(ss) \o Concat(Tail(ss))

RECURSIVE Reverse(_)
Reverse(s) == IF s = <<>> THEN <<>> ELSE Reverse(Tail(s)) \o <<Head(s)>>

Ids(items) == {items[i].id : i \in 1..Len(items)}
NoDuplicates(items) == Cardinality(Ids(items)) = Len(items)

----------------------------------------------------------------------------
(* The message service *)

\* generateMessagePreviews(count); cacheId is the token generateId() returned.
\* The random cosmetic fields (lastMessage, unreadCount, timestamp) are left out.
GenerateMessagePreviews(count, cacheId) ==
    [i \in 1..count |->
        [id |-> <<"preview", cacheId, i - 1>>,
         user |-> <<"user", cacheId, i - 1>>]]

\* the sample texts, each a string kept whole
CHAT_MESSAGES ==
    << <<"Hello!">>, <<"Hey there!">>, <<"How are you doing today?">>,
       <<"I am doing great, thanks for asking!">>,
       <<"What are you up to this weekend?">>,
       <<"Not much, just relaxing. You?">>, <<"Same here. Maybe catch a movie?">>,
       <<"Sounds like a plan!">>, <<"Which movie were you thinking?">>,
       <<"How about that new action film?">>,
       <<"Perfect, I heard it is really good">>,
       <<"Great, let us plan for Saturday then">>, <<"Works for me!">>,
       <<"See you then!">>, <<"Can not wait!">> >>

\* 1000 * 60 * 2: the generated messages of a conversation are two minutes apart
TWO_MINUTES == 120000

\* mutant: the timestamps run like those of the previews, newest first
GenerateChatMessages_NewestFirst(conversationId, count, cacheId) ==
    [i \in 1..count |->
        [id |-> <<"msg", cacheId, i - 1>>,
         conversationId |-> conversationId,
         text |-> CHAT_MESSAGES[((i - 1) % Len(CHAT_MESSAGES)) + 1],
         isSent |-> (i - 1) % 2 = 0,
         timestamp |-> clock - (i - 1) * TWO_MINUTES]]

\* generateChatMessages(conversationId, count)
GenerateChatMessages(conversationId, count, cacheId) ==
    [i \in 1..count |->
        [id |-> <<"msg", cacheId, i - 1>>,
         conversationId |-> conversationId,
         text |-> CHAT_MESSAGES[((i - 1) % Len(CHAT_MESSAGES)) + 1],
         isSent |-> (i - 1) % 2 = 0,
         timestamp |-> clock - (count - i) * TWO_MINUTES]]

PreviewsKey(count) == <<"previews", count>>
ChatKey(conversationId) == <<"chat", conversationId>>

\* mutant: the cache is never found, every call generates the data again
Has_Never(cache, key) == FALSE

Has(cache, key) == key \in DOMAIN cache
CacheSet(cache, key, value) ==
    [k \in DOMAIN cache \cup {key} |-> IF k = key THEN value ELSE cache[k]]

\* mutant: two pages of data are generated, not three
GeneratedSize_Double(count) == count * 2

GeneratedSize(count) == count * OVERSIZE
PageSize(count) == Min(count, PAGE_CAP)

ForwardStart(cursor) == IF Truthy(cursor) THEN ParseInt(cursor.chars) ELSE 0
ForwardEnd(startIndex, pageSize, length) == Min(startIndex + pageSize, length)
ForwardHasMore(endIndex, length) == endIndex < length
\* mutant: the cursor points one past the end of the page
ForwardNextCursor_Skip(endIndex, length) ==
    IF endIndex < length THEN Str(ToString(endIndex + 1)) ELSE Undefined

ForwardNextCursor(endIndex, length) ==
    IF endIndex < length THEN Str(ToString(endIndex)) ELSE Undefined

BackwardEnd(cursor, length) == IF Truthy(cursor) THEN ParseInt(cursor.chars) ELSE length
\* mutant: the start of the page is not clamped at 0
BackwardStart_NoClamp(endIndex, pageSize) == endIndex - pageSize

BackwardStart(endIndex, pageSize) == Max(endIndex - pageSize, 0)
BackwardHasMore(startIndex) == startIndex > 0
\* mutant: a cursor is returned for the oldest page as well
BackwardNextCursor_AtZero(startIndex) ==
    IF startIndex >= 0 THEN Str(ToString(startIndex)) ELSE Undefined

BackwardNextCursor(startIndex) ==
    IF startIndex > 0 THEN Str(ToString(startIndex)) ELSE Undefined

\* The body of fetchMessagePreviews after its delay: the cache it leaves, the
\* number of ids generated, the response, and the offset of the first item.
FetchMessagePreviews(cache, gen, count, cursor) ==
    LET cacheKey == PreviewsKey(count)
        miss == ~Has(cache, cacheKey)
        cache1 == IF miss
                  THEN CacheSet(cache, cacheKey,
                                GenerateMessagePreviews(GeneratedSize(count), gen))
                  ELSE cache
        allMessages == cache1[cacheKey]
        startIndex == ForwardStart(cursor)
        endIndex == ForwardEnd(startIndex, PageSize(count), Len(allMessages))
    IN [cache |-> cache1,
        generated |-> IF miss THEN gen + 1 ELSE gen,
        miss |-> miss,
        resp |-> [data |-> Slice(allMessages, startIndex, endIndex),
                  hasMore |-> ForwardHasMore(endIndex, Len(allMessages)),
                  nextCursor |-> ForwardNextCursor(endIndex, Len(allMessages))],
        startIndex |-> startIndex]

\* The body of fetchChatMessages after its delay
FetchChatMessages(cache, gen, conversationId, count, cursor) ==
    LET cacheKey == ChatKey(conversationId)
        miss == ~Has(cache, cacheKey)
        cache1 == IF miss
                  THEN CacheSet(cache, cacheKey,
                                GenerateChatMessages(conversationId,
                                                     GeneratedSize(count), gen))
                  ELSE cache
        allMessages == cache1[cacheKey]
        endIndex == BackwardEnd(cursor, Len(allMessages))
        startIndex == BackwardStart(endIndex, PageSize(count))
    IN [cache |-> cache1,
        generated |-> IF miss THEN gen + 1 ELSE gen,
        miss |-> miss,
        resp |-> [data |-> Slice(allMessages, startIndex, endIndex),
                  hasMore |-> BackwardHasMore(startIndex),
                  nextCursor |-> BackwardNextCursor(startIndex)],
        startIndex |-> startIndex]

\* mutant: sendMessage starts an entry when the conversation has none
SendMessage_Creates(cache, gen, conversationId, text) ==
    LET newMessage == [id |-> <<"id", gen>>,
                       conversationId |-> conversationId,
                       text |-> text,
                       isSent |-> TRUE,
                       timestamp |-> clock]
        cacheKey == ChatKey(conversationId)
    IN [cache |-> IF Has(cache, cacheKey)
                  THEN [cache EXCEPT ![cacheKey] = Append(@, newMessage)]
                  ELSE CacheSet(cache, cacheKey, <<newMessage>>),
        generated |-> gen + 1,
        message |-> newMessage]

\* mutant: the message goes to the front of the entry
SendMessage_Unshift(cache, gen, conversationId, text) ==
    LET newMessage == [id |-> <<"id", gen>>,
                       conversationId |-> conversationId,
                       text |-> text,
                       isSent |-> TRUE,
                       timestamp |-> clock]
        cacheKey == ChatKey(conversationId)
    IN [cache |-> IF Has(cache, cacheKey)
                  THEN [cache EXCEPT ![cacheKey] = <<newMessage>> \o @]
                  ELSE cache,
        generated |-> gen + 1,
        message |-> newMessage]

\* The body of sendMessage after its delay; the new id is the token generateId()
\* returned, the message is pushed only when the conversation has an entry.
SendMessage(cache, gen, conversationId, text) ==
    LET newMessage == [id |-> <<"id", gen>>,
                       conversationId |-> conversationId,
                       text |-> text,
                       isSent |-> TRUE,
                       timestamp |-> clock]
        cacheKey == ChatKey(conversationId)
    IN [cache |-> IF Has(cache, cacheKey)
                  THEN [cache EXCEPT ![cacheKey] = Append(@, newMessage)]
                  ELSE cache,
        generated |-> gen + 1,
        message |-> newMessage]

NoResponse == [data |-> <<>>, hasMore |-> FALSE, nextCursor |-> Undefined]

----------------------------------------------------------------------------
(* The ConversationSheet component after it is mounted and rendered once *)

Null == "null"
NoTask == <<>>

Snapshot ==
    [selectedConversation |-> selectedConversation,
     chatHasMore |-> chatHasMore,
     chatCursor |-> chatCursor,
     inputText |-> inputText,
     chatLoading |-> chatLoading]

InitSheet ==
    /\ selectedConversation = Null
    /\ chatMessages = <<>>
    /\ chatLoading = FALSE
    /\ chatLoadingMore = FALSE
    /\ chatHasMore = TRUE
    /\ chatCursor = Undefined
    /\ inputText = <<>>
    /\ chatLoadingMoreRef = FALSE
    /\ rendered = Snapshot
    /\ presented = FALSE
    /\ tasks = <<>>
    /\ last = [op |-> "mount", task |-> NoTask]

\* The two variants of ConversationSheet: the chronological one keeps
\* chatMessages oldest first, the inverted one newest first.
Variants == {"chronological", "inverted"}

\* the state of one mounted ConversationSheet with the service it talks to
InitRun ==
    [selectedConversation |-> Null,
     chatMessages |-> <<>>,
     chatLoading |-> FALSE,
     chatLoadingMore |-> FALSE,
     chatHasMore |-> TRUE,
     chatCursor |-> Undefined,
     inputText |-> <<>>,
     chatLoadingMoreRef |-> FALSE,
     rendered |-> [selectedConversation |-> Null,
                   chatHasMore |-> TRUE,
                   chatCursor |-> Undefined,
                   inputText |-> <<>>,
                   chatLoading |-> FALSE],
     presented |-> FALSE,
     tasks |-> <<>>,
     started |-> 0,
     chatCache |-> <<>>,
     generated |-> 0]

InitVariants == [v \in Variants |-> InitRun]

----------------------------------------------------------------------------
(* The MessagesExampleSheet component when it is constructed *)

ListSnapshot ==
    [itemCount |-> itemCount,
     messagesHasMore |-> messagesHasMore,
     messagesCursor |-> messagesCursor,
     listMounted |-> ~(messagesLoading /\ messages = <<>>)]

InitList ==
    /\ itemCount = DEFAULT_ITEM_COUNT
    /\ messages = <<>>
    /\ messagesLoading = FALSE
    /\ messagesHasMore = TRUE
    /\ messagesCursor = Undefined
    /\ messagesLoadingRef = FALSE
    /\ listRendered = ListSnapshot
    /\ listTasks = <<>>
    /\ listLast = "construct"

----------------------------------------------------------------------------
(* A caller that follows a cursor chain: the first call has no cursor, each *)
(* later call passes the nextCursor the previous page returned.             *)

Conversation == "c1"

ChainFetch(cursor) ==
    IF chain.mode = "forward"
    THEN FetchMessagePreviews(messageCache, generated, chain.count, cursor)
    ELSE FetchChatMessages(chatCache, generated, Conversation, chain.count, cursor)

ChainStore(r) ==
    /\ generated' = r.generated
    /\ IF chain.mode = "forward"
       THEN messageCache' = r.cache /\ UNCHANGED chatCache
       ELSE chatCache' = r.cache /\ UNCHANGED messageCache

ChainEntry ==
    IF chain.mode = "forward"
    THEN messageCache[PreviewsKey(chain.count)]
    ELSE chatCache[ChatKey(Conversation)]

InitChain ==
    /\ messageCache = <<>>
    /\ chatCache = <<>>
    /\ generated = 0
    /\ chain \in {[mode |-> m, count |-> n, cursor |-> Undefined,
                   lastCursor |-> Undefined, pages |-> <<>>,
                   done |-> FALSE, again |-> <<>>, probed |-> FALSE,
                   probe |-> <<>>] :
                  m \in {"forward", "backward"}, n \in 0..MaxCount}
    /\ resp = NoResponse
    /\ calls = <<>>
    /\ served = {}
    /\ sent = {}
    /\ clock = 0
    /\ variants = InitVariants
    /\ epoch = 0
    /\ started = 0
    /\ InitSheet
    /\ InitList

\* the next call of the chain; chain.pages keeps every response in fetch order
ChainNext ==
    /\ ~chain.done
    /\ LET r == ChainFetch(chain.cursor)
       IN /\ ChainStore(r)
          /\ resp' = r.resp
          /\ chain' = [chain EXCEPT
                !.pages = Append(@, r.resp),
                !.cursor = r.resp.nextCursor,
                !.lastCursor = IF r.resp.nextCursor.defined
                               THEN r.resp.nextCursor ELSE @,
                !.done = ~r.resp.hasMore]
    /\ UNCHANGED <<calls, served, sent, clock, variants, epoch, started, sheetVars, listVars>>

\* after the chain has ended, the same fetch with the last cursor it returned
ChainAgain ==
    /\ chain.done
    /\ chain.lastCursor.defined
    /\ chain.again = <<>>
    /\ LET r == ChainFetch(chain.lastCursor)
       IN /\ ChainStore(r)
          /\ resp' = r.resp
          /\ chain' = [chain EXCEPT !.again = <<r.resp>>]
    /\ UNCHANGED <<calls, served, sent, clock, variants, epoch, started, sheetVars, listVars>>

\* the cursors a caller may pass: none, the empty string, and the decimal
\* string of an offset from below 0 to beyond the longest entry
ProbeCursors ==
    {Undefined, Str(<<>>)} \cup
    {Str(ToString(n)) : n \in (0 - MaxProbe)..(GeneratedSize(MaxCount) + MaxProbe)}

\* a single call with any cursor, at any point of the chain; chain.probe keeps
\* the cursor and the response
Probe ==
    /\ ~chain.probed
    /\ \E cursor \in ProbeCursors :
         LET r == ChainFetch(cursor)
         IN /\ ChainStore(r)
            /\ resp' = r.resp
            /\ chain' = [chain EXCEPT
                  !.probed = TRUE,
                  !.probe = <<[cursor |-> cursor, resp |-> r.resp]>>]
    /\ UNCHANGED <<calls, served, sent, clock, variants, epoch, started, sheetVars, listVars>>

NextChain == ChainNext \/ ChainAgain \/ Probe

SpecChain == InitChain /\ [][NextChain]_vars

PageData(pages) == [i \in 1..Len(pages) |-> pages[i].data]

----------------------------------------------------------------------------
(* The service under concurrent callers: every call waits for its delay and *)
(* then runs its body in one step; calls started earlier may finish later.  *)

Conversations == {"c1", "c2"}
\* sample arguments: page sizes 1 and 2 (entries of 3 and 6 items), no cursor
\* or the cursor of the second or the third page
CacheCounts == {1, 2}
CacheCursors == {Undefined, Str(<<"1">>), Str(<<"2">>), Str(<<"4">>)}
SentText == <<"a">>

InitCache ==
    /\ messageCache = <<>>
    /\ chatCache = <<>>
    /\ generated = 0
    /\ chain = [mode |-> "none", count |-> 0, cursor |-> Undefined,
                lastCursor |-> Undefined, pages |-> <<>>,
                done |-> FALSE, again |-> <<>>, probed |-> FALSE,
                probe |-> <<>>]
    /\ resp = NoResponse
    /\ calls = <<>>
    /\ served = {}
    /\ sent = {}
    /\ clock = 0
    /\ variants = InitVariants
    /\ epoch = 0
    /\ started = 0
    /\ InitSheet
    /\ InitList

Call(kind, conversationId, count, cursor, cold) ==
    [kind |-> kind, conversationId |-> conversationId, count |-> count,
     cursor |-> cursor, cold |-> cold]

StartCall(c) ==
    /\ started < MaxCalls
    /\ calls' = Append(calls, c)
    /\ started' = started + 1
    /\ UNCHANGED <<messageCache, chatCache, generated, chain, resp, served, sent, clock, variants,
                   epoch, sheetVars, listVars>>

\* fetchMessagePreviews(count, cursor) is called and waits for its delay
CallFetchMessagePreviews ==
    \E count \in CacheCounts, cursor \in CacheCursors :
        StartCall(Call("previews", "", count, cursor,
                       ~Has(messageCache, PreviewsKey(count))))

\* fetchChatMessages(conversationId, count, cursor) is called and waits
CallFetchChatMessages ==
    \E conversationId \in Conversations, count \in CacheCounts,
       cursor \in CacheCursors :
        StartCall(Call("chat", conversationId, count, cursor,
                       ~Has(chatCache, ChatKey(conversationId))))

\* sendMessage(conversationId, text) is called and waits
CallSendMessage ==
    \E conversationId \in Conversations :
        StartCall(Call("send", conversationId, 0, Undefined,
                       ~Has(chatCache, ChatKey(conversationId))))

Remove(seq, i) == SubSeq(seq, 1, i - 1) \o SubSeq(seq, i + 1, Len(seq))

\* what a response hands to its caller: each item with the offset it has in
\* the entry of its key, whether the call started before the entry existed
\* (cold) and whether the call generated the entry itself (miss)
Served(c, key, r) ==
    {[key |-> key, offset |-> r.startIndex + j - 1,
      id |-> r.resp.data[j].id, cold |-> c.cold, miss |-> r.miss,
      epoch |-> epoch] : j \in 1..Len(r.resp.data)}

\* the delay of call i is over: its body runs
FinishFetchMessagePreviews(i) ==
    /\ calls[i].kind = "previews"
    /\ LET c == calls[i]
           r == FetchMessagePreviews(messageCache, generated, c.count, c.cursor)
       IN /\ messageCache' = r.cache
          /\ generated' = r.generated
          /\ served' = served \cup Served(c, PreviewsKey(c.count), r)
    /\ calls' = Remove(calls, i)
    /\ UNCHANGED <<chatCache, chain, resp, sent, clock, variants, epoch, started, sheetVars,
                   listVars>>

FinishFetchChatMessages(i) ==
    /\ calls[i].kind = "chat"
    /\ LET c == calls[i]
           r == FetchChatMessages(chatCache, generated, c.conversationId,
                                  c.count, c.cursor)
       IN /\ chatCache' = r.cache
          /\ generated' = r.generated
          /\ served' = served \cup Served(c, ChatKey(c.conversationId), r)
    /\ calls' = Remove(calls, i)
    /\ UNCHANGED <<messageCache, chain, resp, sent, clock, variants, epoch, started, sheetVars,
                   listVars>>

FinishSendMessage(i) ==
    /\ calls[i].kind = "send"
    /\ LET c == calls[i]
           r == SendMessage(chatCache, generated, c.conversationId, SentText)
       IN /\ chatCache' = r.cache
          /\ generated' = r.generated
          /\ sent' = sent \cup {[message |-> r.message,
                                  entry |-> Has(chatCache, ChatKey(c.conversationId)),
                                  epoch |-> epoch]}
    /\ calls' = Remove(calls, i)
    /\ UNCHANGED <<messageCache, clock, variants, chain, resp, served, epoch, started,
                   sheetVars, listVars>>

\* mutant: clearCache() forgets the chat cache
ClearCache_OnlyPreviews ==
    /\ epoch < MaxClears
    /\ messageCache' = <<>>
    /\ epoch' = epoch + 1
    /\ UNCHANGED <<chatCache, generated, chain, resp, calls, served, sent, clock, variants,
                   started, sheetVars, listVars>>

\* clearCache(), which loadMessages calls before every reload of the list
ClearCache ==
    /\ epoch < MaxClears
    /\ messageCache' = <<>>
    /\ chatCache' = <<>>
    /\ epoch' = epoch + 1
    /\ UNCHANGED <<generated, chain, resp, calls, served, sent, clock, variants, started, sheetVars,
                   listVars>>

NextCache ==
    \/ CallFetchMessagePreviews
    \/ CallFetchChatMessages
    \/ CallSendMessage
    \/ \E i \in 1..Len(calls) : FinishFetchMessagePreviews(i)
    \/ \E i \in 1..Len(calls) : FinishFetchChatMessages(i)
    \/ \E i \in 1..Len(calls) : FinishSendMessage(i)
    \/ ClearCache

SpecCache == InitCache /\ [][NextCache]_vars

CacheOf(key) == IF key[1] = "previews" THEN messageCache ELSE chatCache

----------------------------------------------------------------------------
(* The ConversationSheet controller (oldest-first variant).  A handler runs  *)
(* in one step up to its await; the service call it awaits settles in a later *)
(* step, in any order among the calls in flight, and the rest of the handler  *)
(* runs in that step.  React applies the state updates in order.  The updates  *)
(* a press or a text change makes are rendered before the next event; the     *)
(* updates made after an await are rendered later: until the Render step the  *)
(* callbacks wired to the list and the input are those of the previous render *)
(* for these values.                                                          *)

\* the drafts a user types
Texts == {<<>>, <<" ">>, <<"a">>, <<" ", "a", " ">>}

RECURSIVE TrimStart(_)
TrimStart(s) == IF s # <<>> /\ Head(s) = " " THEN TrimStart(Tail(s)) ELSE s

RECURSIVE TrimEnd(_)
TrimEnd(s) ==
    IF s # <<>> /\ s[Len(s)] = " " THEN TrimEnd(SubSeq(s, 1, Len(s) - 1)) ELSE s

\* String.prototype.trim()
Trim(s) == TrimEnd(TrimStart(s))

Task(kind, conversationId, cursor, text, typed) ==
    [kind |-> kind, conversationId |-> conversationId, cursor |-> cursor,
     text |-> text, typed |-> typed]

Init ==
    /\ messageCache = <<>>
    /\ chatCache = <<>>
    /\ generated = 0
    /\ chain = [mode |-> "none", count |-> 0, cursor |-> Undefined,
                lastCursor |-> Undefined, pages |-> <<>>,
                done |-> FALSE, again |-> <<>>, probed |-> FALSE,
                probe |-> <<>>]
    /\ resp = NoResponse
    /\ calls = <<>>
    /\ served = {}
    /\ sent = {}
    /\ clock = 0
    /\ variants = InitVariants
    /\ epoch = 0
    /\ started = 0
    /\ InitSheet
    /\ InitList

\* present(conversation): select it and run loadChatMessages up to its await
Present(conversation) ==
    /\ started < MaxTasks
    /\ started' = started + 1
    /\ selectedConversation' = conversation
    /\ chatLoading' = TRUE
    /\ chatMessages' = <<>>
    /\ chatCursor' = Undefined
    /\ tasks' = Append(tasks, Task("open", conversation, Undefined, <<>>, <<>>))
    /\ rendered' = [rendered EXCEPT !.selectedConversation = conversation,
                                    !.chatLoading = TRUE,
                                    !.chatCursor = Undefined]
    /\ last' = [op |-> "present", task |-> NoTask]
    /\ UNCHANGED <<cacheVars, serviceVars, listVars, chatLoadingMore, chatHasMore,
                   inputText, chatLoadingMoreRef, presented>>

\* mutant: the early return tests the rendered state, not the ref
LoadMoreGuard_NoRef ==
    \/ ~rendered.chatHasMore
    \/ ~Truthy(rendered.chatCursor)
    \/ rendered.selectedConversation = Null

\* the early return of loadMoreChatMessages
LoadMoreGuard ==
    \/ chatLoadingMoreRef
    \/ ~rendered.chatHasMore
    \/ ~Truthy(rendered.chatCursor)
    \/ rendered.selectedConversation = Null

\* onScroll near the top calls loadMoreChatMessages; the list is on screen
\* once the sheet is presented and mounted while the rendered chatLoading is
\* false
LoadMoreChatMessages ==
    /\ presented
    /\ ~rendered.chatLoading
    /\ IF LoadMoreGuard
       THEN /\ last' = [op |-> "loadMoreDropped", task |-> NoTask]
            /\ UNCHANGED <<started, chatLoadingMoreRef, chatLoadingMore, tasks>>
       ELSE /\ started < MaxTasks
            /\ started' = started + 1
            /\ chatLoadingMoreRef' = TRUE
            /\ chatLoadingMore' = TRUE
            /\ tasks' = Append(tasks, Task("more", rendered.selectedConversation,
                                           rendered.chatCursor, <<>>, <<>>))
            /\ last' = [op |-> "loadMore", task |-> NoTask]
    /\ UNCHANGED <<cacheVars, serviceVars, listVars, selectedConversation, chatMessages,
                   chatLoading, chatHasMore, chatCursor, inputText, rendered,
                   presented>>

\* mutant: the early return tests the text as typed
SendGuard_NoTrim ==
    rendered.inputText = <<>> \/ rendered.selectedConversation = Null

\* mutant: handleSendMessage also returns while a loadMore fetch is in flight
SendGuard_Gated ==
    \/ chatLoadingMoreRef
    \/ Trim(rendered.inputText) = <<>>
    \/ rendered.selectedConversation = Null

\* the early return of handleSendMessage
SendGuard ==
    Trim(rendered.inputText) = <<>> \/ rendered.selectedConversation = Null

\* onSend of the input in the sheet's footer calls handleSendMessage
HandleSendMessage ==
    /\ presented
    /\ IF SendGuard
       THEN /\ last' = [op |-> "sendDropped", task |-> NoTask]
            /\ UNCHANGED <<started, inputText, rendered, tasks>>
       ELSE /\ started < MaxTasks
            /\ started' = started + 1
            /\ inputText' = <<>>
            /\ rendered' = [rendered EXCEPT !.inputText = <<>>]
            /\ tasks' = Append(tasks, Task("send", rendered.selectedConversation,
                                           Undefined, Trim(rendered.inputText),
                                           rendered.inputText))
            /\ last' = [op |-> "send", task |-> NoTask]
    /\ UNCHANGED <<cacheVars, serviceVars, listVars, selectedConversation, chatMessages,
                   chatLoading, chatLoadingMore, chatHasMore, chatCursor,
                   chatLoadingMoreRef, presented>>

\* onChangeText={setInputText}
SetInputText(text) ==
    /\ presented
    /\ inputText # text
    /\ inputText' = text
    /\ rendered' = [rendered EXCEPT !.inputText = text]
    /\ UNCHANGED <<cacheVars, serviceVars, listVars, started, selectedConversation,
                   chatMessages, chatLoading, chatLoadingMore, chatHasMore,
                   chatCursor, chatLoadingMoreRef, presented, tasks, last>>

\* React renders the component: the callbacks now close over the current state
Render ==
    /\ rendered # Snapshot
    /\ rendered' = Snapshot
    /\ UNCHANGED <<cacheVars, serviceVars, listVars, started, selectedConversation,
                   chatMessages, chatLoading, chatLoadingMore, chatHasMore,
                   chatCursor, inputText, chatLoadingMoreRef, presented, tasks,
                   last>>

\* dismiss() / handleBack: the sheet leaves the screen, its state is kept
Dismiss ==
    /\ presented
    /\ presented' = FALSE
    /\ UNCHANGED <<cacheVars, serviceVars, listVars, started, selectedConversation,
                   chatMessages, chatLoading, chatLoadingMore, chatHasMore,
                   chatCursor, inputText, chatLoadingMoreRef, rendered, tasks,
                   last>>

\* loadChatMessages after its await: fetchChatMessages(conversationId, 20)
\* resolves, the page replaces chatMessages; present() then shows the sheet
ResolveLoadChatMessages(i) ==
    /\ tasks[i].kind = "open"
    /\ LET r == FetchChatMessages(chatCache, generated, tasks[i].conversationId,
                                  CHAT_COUNT, Undefined)
       IN /\ chatCache' = r.cache
          /\ generated' = r.generated
          /\ chatMessages' = r.resp.data
          /\ chatHasMore' = r.resp.hasMore
          /\ chatCursor' = r.resp.nextCursor
    /\ chatLoading' = FALSE
    /\ presented' = TRUE
    /\ tasks' = Remove(tasks, i)
    /\ last' = [op |-> "opened", task |-> <<tasks[i]>>]
    /\ UNCHANGED <<messageCache, serviceVars, listVars, started, selectedConversation,
                   chatLoadingMore, inputText, chatLoadingMoreRef, rendered>>

\* loadMoreChatMessages after its await: fetchChatMessages(id, 20, cursor)
\* resolves, the page goes in front of chatMessages, the guard is cleared
ResolveLoadMoreChatMessages(i) ==
    /\ tasks[i].kind = "more"
    /\ LET r == FetchChatMessages(chatCache, generated, tasks[i].conversationId,
                                  CHAT_COUNT, tasks[i].cursor)
       IN /\ chatCache' = r.cache
          /\ generated' = r.generated
          /\ chatMessages' = r.resp.data \o chatMessages
          /\ chatHasMore' = r.resp.hasMore
          /\ chatCursor' = r.resp.nextCursor
    /\ chatLoadingMore' = FALSE
    /\ chatLoadingMoreRef' = FALSE
    /\ tasks' = Remove(tasks, i)
    /\ last' = [op |-> "loadedMore", task |-> <<tasks[i]>>]
    /\ UNCHANGED <<messageCache, serviceVars, listVars, started, selectedConversation,
                   chatLoading, inputText, rendered, presented>>

\* mutant: the new message goes in front of chatMessages
ResolveHandleSendMessage_Prepends(i) ==
    /\ tasks[i].kind = "send"
    /\ LET r == SendMessage(chatCache, generated, tasks[i].conversationId,
                            tasks[i].text)
       IN /\ chatCache' = r.cache
          /\ generated' = r.generated
          /\ chatMessages' = <<r.message>> \o chatMessages
          /\ sent' = sent \cup {[message |-> r.message,
                                  entry |-> Has(chatCache, ChatKey(tasks[i].conversationId)),
                                  epoch |-> epoch]}
    /\ tasks' = Remove(tasks, i)
    /\ last' = [op |-> "sent", task |-> <<tasks[i]>>]
    /\ UNCHANGED <<messageCache, clock, variants, chain, resp, calls, served, epoch, listVars,
                   started, selectedConversation, chatLoading, chatLoadingMore,
                   chatHasMore, chatCursor, inputText, chatLoadingMoreRef, rendered,
                   presented>>

\* handleSendMessage after its await: sendMessage resolves, the new message
\* goes to the end of chatMessages
ResolveHandleSendMessage(i) ==
    /\ tasks[i].kind = "send"
    /\ LET r == SendMessage(chatCache, generated, tasks[i].conversationId,
                            tasks[i].text)
       IN /\ chatCache' = r.cache
          /\ generated' = r.generated
          /\ chatMessages' = Append(chatMessages, r.message)
          /\ sent' = sent \cup {[message |-> r.message,
                                  entry |-> Has(chatCache, ChatKey(tasks[i].conversationId)),
                                  epoch |-> epoch]}
    /\ tasks' = Remove(tasks, i)
    /\ last' = [op |-> "sent", task |-> <<tasks[i]>>]
    /\ UNCHANGED <<messageCache, clock, variants, chain, resp, calls, served, epoch, listVars,
                   started, selectedConversation, chatLoading, chatLoadingMore,
                   chatHasMore, chatCursor, inputText, chatLoadingMoreRef, rendered,
                   presented>>

\* handleSendMessage when the awaited call rejects: the catch block
RejectHandleSendMessage(i) ==
    /\ tasks[i].kind = "send"
    /\ inputText' = tasks[i].text
    /\ tasks' = Remove(tasks, i)
    /\ last' = [op |-> "sendFailed", task |-> <<tasks[i]>>]
    /\ UNCHANGED <<cacheVars, serviceVars, listVars, started, selectedConversation,
                   chatMessages, chatLoading, chatLoadingMore, chatHasMore,
                   chatCursor, chatLoadingMoreRef, rendered, presented>>

Next ==
    \/ \E conversation \in Conversations : Present(conversation)
    \/ LoadMoreChatMessages
    \/ HandleSendMessage
    \/ \E text \in Texts : SetInputText(text)
    \/ Render
    \/ Dismiss
    \/ \E i \in 1..Len(tasks) : ResolveLoadChatMessages(i)
    \/ \E i \in 1..Len(tasks) : ResolveLoadMoreChatMessages(i)
    \/ \E i \in 1..Len(tasks) : ResolveHandleSendMessage(i)
    \/ \E i \in 1..Len(tasks) : RejectHandleSendMessage(i)

Spec == Init /\ [][Next]_vars

----------------------------------------------------------------------------
(* The MessagesExampleSheet controller with the itemCount setting of          *)
(* TestScreen.  Mounting runs loadMessages once; a press on -5 or +5 changes   *)
(* itemCount, the sheet renders with the new prop and its effect runs          *)
(* loadMessages again.  onEndReached of the list calls loadMoreMessages.       *)

ListTask(kind, count, cursor) == [kind |-> kind, count |-> count, cursor |-> cursor]

\* the state once the mount effect has run loadMessages up to its await
InitMounted ==
    /\ messageCache = <<>>
    /\ chatCache = <<>>
    /\ generated = 0
    /\ chain = [mode |-> "none", count |-> 0, cursor |-> Undefined,
                lastCursor |-> Undefined, pages |-> <<>>,
                done |-> FALSE, again |-> <<>>, probed |-> FALSE,
                probe |-> <<>>]
    /\ resp = NoResponse
    /\ calls = <<>>
    /\ served = {}
    /\ sent = {}
    /\ clock = 0
    /\ variants = InitVariants
    /\ epoch = 1
    /\ started = 1
    /\ InitSheet
    /\ itemCount = DEFAULT_ITEM_COUNT
    /\ messages = <<>>
    /\ messagesLoading = TRUE
    /\ messagesHasMore = TRUE
    /\ messagesCursor = Undefined
    /\ messagesLoadingRef = FALSE
    /\ listRendered = [itemCount |-> DEFAULT_ITEM_COUNT,
                       messagesHasMore |-> TRUE,
                       messagesCursor |-> Undefined,
                       listMounted |-> TRUE]
    /\ listTasks = <<ListTask("load", DEFAULT_ITEM_COUNT, Undefined)>>
    /\ listLast = "loadMessages"

\* the -5 and +5 buttons
ItemCounts == {Max(ITEM_STEP, itemCount - ITEM_STEP), itemCount + ITEM_STEP}

\* a press changes itemCount; the sheet renders with the new prop and the
\* effect runs loadMessages up to its await
SetItemCount(count) ==
    /\ count # itemCount
    /\ count <= MaxItemCount
    /\ started < MaxListTasks
    /\ started' = started + 1
    /\ itemCount' = count
    /\ listRendered' = [listRendered EXCEPT !.itemCount = count]
    /\ messagesLoadingRef' = FALSE
    /\ messagesLoading' = TRUE
    /\ messageCache' = <<>>
    /\ chatCache' = <<>>
    /\ epoch' = epoch + 1
    /\ listTasks' = Append(listTasks, ListTask("load", count, Undefined))
    /\ listLast' = "loadMessages"
    /\ UNCHANGED <<generated, chain, resp, calls, served, sent, clock, variants, sheetVars,
                   messages, messagesHasMore, messagesCursor>>

\* the early return of loadMoreMessages
LoadMoreMessagesGuard ==
    \/ messagesLoadingRef
    \/ ~listRendered.messagesHasMore
    \/ ~Truthy(listRendered.messagesCursor)

\* onEndReached={loadMoreMessages}; the list is mounted unless the sheet
\* rendered its loading indicator
LoadMoreMessages ==
    /\ listRendered.listMounted
    /\ IF LoadMoreMessagesGuard
       THEN /\ listLast' = "loadMoreDropped"
            /\ UNCHANGED <<started, messagesLoadingRef, messagesLoading,
                           listTasks>>
       ELSE /\ started < MaxListTasks
            /\ started' = started + 1
            /\ messagesLoadingRef' = TRUE
            /\ messagesLoading' = TRUE
            /\ listTasks' = Append(listTasks,
                                   ListTask("more", listRendered.itemCount,
                                            listRendered.messagesCursor))
            /\ listLast' = "loadMore"
    /\ UNCHANGED <<cacheVars, serviceVars, sheetVars, itemCount, messages,
                   messagesHasMore, messagesCursor, listRendered>>

\* React renders MessagesExampleSheet with the current state
ListRender ==
    /\ listRendered # ListSnapshot
    /\ listRendered' = ListSnapshot
    /\ UNCHANGED <<cacheVars, serviceVars, sheetVars, started, itemCount,
                   messages, messagesLoading, messagesHasMore, messagesCursor,
                   messagesLoadingRef, listTasks, listLast>>

\* loadMessages after its await: fetchMessagePreviews(itemCount) resolves and
\* the page replaces messages
ResolveLoadMessages(i) ==
    /\ listTasks[i].kind = "load"
    /\ LET r == FetchMessagePreviews(messageCache, generated,
                                     listTasks[i].count, Undefined)
       IN /\ messageCache' = r.cache
          /\ generated' = r.generated
          /\ messages' = r.resp.data
          /\ messagesHasMore' = r.resp.hasMore
          /\ messagesCursor' = r.resp.nextCursor
    /\ messagesLoading' = FALSE
    /\ listTasks' = Remove(listTasks, i)
    /\ listLast' = "loaded"
    /\ UNCHANGED <<chatCache, serviceVars, sheetVars, started, itemCount,
                   messagesLoadingRef, listRendered>>

\* loadMoreMessages after its await: fetchMessagePreviews(itemCount, cursor)
\* resolves, the page goes behind messages, the guard is cleared
ResolveLoadMoreMessages(i) ==
    /\ listTasks[i].kind = "more"
    /\ LET r == FetchMessagePreviews(messageCache, generated,
                                     listTasks[i].count, listTasks[i].cursor)
       IN /\ messageCache' = r.cache
          /\ generated' = r.generated
          /\ messages' = messages \o r.resp.data
          /\ messagesHasMore' = r.resp.hasMore
          /\ messagesCursor' = r.resp.nextCursor
    /\ messagesLoading' = FALSE
    /\ messagesLoadingRef' = FALSE
    /\ listTasks' = Remove(listTasks, i)
    /\ listLast' = "loadedMore"
    /\ UNCHANGED <<chatCache, serviceVars, sheetVars, started, itemCount,
                   listRendered>>

NextList ==
    \/ \E count \in ItemCounts : SetItemCount(count)
    \/ LoadMoreMessages
    \/ ListRender
    \/ \E i \in 1..Len(listTasks) : ResolveLoadMessages(i)
    \/ \E i \in 1..Len(listTasks) : ResolveLoadMoreMessages(i)

SpecList == InitMounted /\ [][NextList]_vars

----------------------------------------------------------------------------
(* Pagination of both sheets when a fetch may fail.  The mock service never   *)
(* rejects; here the promise a loadMore awaits may reject, and only the        *)
(* finally block of the handler runs.  The promise of a loadMore settles, the  *)
(* delay of the service being a timer.  One conversation is opened.            *)

\* mutant: the finally block leaves the guard set
RejectLoadMoreChatMessages_KeepsGuard(i) ==
    /\ tasks[i].kind = "more"
    /\ chatLoadingMore' = FALSE
    /\ tasks' = Remove(tasks, i)
    /\ last' = [op |-> "loadMoreFailed", task |-> <<tasks[i]>>]
    /\ UNCHANGED <<cacheVars, serviceVars, listVars, started,
                   selectedConversation, chatMessages, chatLoading, chatHasMore,
                   chatCursor, inputText, chatLoadingMoreRef, rendered,
                   presented>>

\* loadMoreChatMessages when the awaited fetch rejects: the finally block
RejectLoadMoreChatMessages(i) ==
    /\ tasks[i].kind = "more"
    /\ chatLoadingMore' = FALSE
    /\ chatLoadingMoreRef' = FALSE
    /\ tasks' = Remove(tasks, i)
    /\ last' = [op |-> "loadMoreFailed", task |-> <<tasks[i]>>]
    /\ UNCHANGED <<cacheVars, serviceVars, listVars, started,
                   selectedConversation, chatMessages, chatLoading, chatHasMore,
                   chatCursor, inputText, rendered, presented>>

\* loadMoreMessages when the awaited fetch rejects: the finally block
RejectLoadMoreMessages(i) ==
    /\ listTasks[i].kind = "more"
    /\ messagesLoading' = FALSE
    /\ messagesLoadingRef' = FALSE
    /\ listTasks' = Remove(listTasks, i)
    /\ listLast' = "loadMoreFailed"
    /\ UNCHANGED <<cacheVars, serviceVars, sheetVars, started, itemCount,
                   messages, messagesHasMore, messagesCursor, listRendered>>

SettleLoadChatMessages == \E i \in 1..Len(tasks) : ResolveLoadChatMessages(i)
SettleLoadMoreChatMessages ==
    \E i \in 1..Len(tasks) :
        ResolveLoadMoreChatMessages(i) \/ RejectLoadMoreChatMessages(i)
SettleLoadMessages == \E i \in 1..Len(listTasks) : ResolveLoadMessages(i)
SettleLoadMoreMessages ==
    \E i \in 1..Len(listTasks) :
        ResolveLoadMoreMessages(i) \/ RejectLoadMoreMessages(i)

\* a step of either sheet, as long as the two have started no more than
\* MaxPagingTasks tasks
NextPaging ==
    /\ \/ NextList
       \/ Present(Conversation)
       \/ LoadMoreChatMessages
       \/ Render
       \/ SettleLoadChatMessages
       \/ SettleLoadMoreChatMessages
       \/ SettleLoadMoreMessages
    /\ started' <= MaxPagingTasks

SpecPaging ==
    /\ InitMounted
    /\ [][NextPaging]_vars
    /\ WF_vars(SettleLoadMoreChatMessages)
    /\ WF_vars(SettleLoadMoreMessages)

----------------------------------------------------------------------------
(* Claims about the cursor chain (checked under SpecChain) *)

\* C1. Forward coverage: once the forward chain from an empty cache has ended
\* (hasMore = false), its pages concatenated in fetch order are exactly the
\* entry previews-{count}, which has 3 * count items, none repeated.
C1_ForwardCoverage ==
    (chain.mode = "forward" /\ chain.done) =>
        /\ Has(messageCache, PreviewsKey(chain.count))
        /\ Concat(PageData(chain.pages)) = messageCache[PreviewsKey(chain.count)]
        /\ Len(Concat(PageData(chain.pages))) = 3 * chain.count
        /\ NoDuplicates(Concat(PageData(chain.pages)))

C1_Witness ==
    chain.mode = "forward" /\ chain.done /\ Len(chain.pages) = 4

\* C2. Backward coverage: once the backward chain on a conversation without a
\* cache entry has ended, its pages, each later one placed in front of the
\* earlier ones, are exactly the entry chat-{id}, oldest to newest.
C2_BackwardCoverage ==
    (chain.mode = "backward" /\ chain.done) =>
        /\ Has(chatCache, ChatKey(Conversation))
        /\ Concat(Reverse(PageData(chain.pages))) = chatCache[ChatKey(Conversation)]
        /\ Len(Concat(PageData(chain.pages))) = 3 * chain.count
        /\ NoDuplicates(Concat(PageData(chain.pages)))

C2_Witness ==
    /\ chain.mode = "backward" /\ chain.done /\ Len(chain.pages) = 4
    /\ Len(chain.pages[4].data) \in 1..(PAGE_CAP - 1)

\* C6. The response of every call of either fetch, with any count and any
\* cursor, has nextCursor undefined exactly when hasMore is false.
C6_CursorIffHasMore ==
    (resp.nextCursor = Undefined) <=> ~resp.hasMore

C6_Witness ==
    /\ chain.probed /\ chain.count > 0
    /\ resp.data = <<>> /\ ~resp.hasMore /\ resp.nextCursor = Undefined

\* C7 as stated: feeding the last cursor of an ended chain again yields an
\* empty page with hasMore = false.
C7_AgainIsEmpty ==
    chain.again # <<>> =>
        (chain.again[1].data = <<>> /\ ~chain.again[1].hasMore)

\* C7 amended: feeding the last cursor of an ended chain again yields the
\* chain's final page once more, which is not empty, with hasMore = false and no
\* nextCursor; this holds in forward and in backward mode.
C7_AgainIsLastPage ==
    chain.again # <<>> =>
        /\ chain.again[1] = chain.pages[Len(chain.pages)]
        /\ chain.again[1].data # <<>>
        /\ ~chain.again[1].hasMore
        /\ chain.again[1].nextCursor = Undefined

C7_Witness ==
    chain.again # <<>> /\ chain.mode = "backward" /\ chain.count = PAGE_CAP

IsDecimalOf(cursor, n) ==
    /\ cursor.defined
    /\ cursor.chars # <<>>
    /\ \A i \in 1..Len(cursor.chars) : IsDigit(cursor.chars[i])
    /\ Head(cursor.chars) # "0"
    /\ ParseInt(cursor.chars) = n

\* C10. List scenario: for every count from 1 to 20 the forward chain from an
\* empty cache has exactly three pages of count items; the first two have
\* hasMore = true and nextCursor the decimal string of count and of 2 * count
\* ("20" and "40" for count = 20), the third has hasMore = false and no
\* nextCursor.
C10_ListScenario ==
    (chain.mode = "forward" /\ chain.count \in 1..20) =>
        /\ Len(chain.pages) <= 3
        /\ chain.done <=> Len(chain.pages) = 3
        /\ \A i \in 1..Len(chain.pages) :
              /\ Len(chain.pages[i].data) = chain.count
              /\ i < 3 => /\ chain.pages[i].hasMore
                          /\ IsDecimalOf(chain.pages[i].nextCursor, i * chain.count)
              /\ i = 3 => /\ ~chain.pages[i].hasMore
                          /\ chain.pages[i].nextCursor = Undefined
        /\ (chain.count = 20 /\ Len(chain.pages) >= 2) =>
              /\ chain.pages[1].nextCursor.chars = <<"2", "0">>
              /\ chain.pages[2].nextCursor.chars = <<"4", "0">>

C10_Witness ==
    chain.mode = "forward" /\ chain.count = 20 /\ chain.done /\ Len(chain.pages) = 3

----------------------------------------------------------------------------
(* Claims about the cache under concurrent callers (checked under SpecCache) *)

\* C4 as stated: whatever the interleaving of the calls on a key, an item
\* identifier returned at an offset by one call is the identifier any other call
\* on that key returns at that offset.
C4_SameIdAtOffset ==
    \A a, b \in served :
        (a.key = b.key /\ a.offset = b.offset) => a.id = b.id

\* C4 amended: as long as clearCache is not called between them, the calls on a
\* key are served from one entry: every item a call has returned since the last
\* clearCache is the item the entry of its key holds at that offset, so any two
\* calls return the same identifier at the same offset; this includes two calls
\* that both started before the entry existed.
C4_StableUntilCleared ==
    /\ \A a \in served :
          a.epoch = epoch =>
              /\ Has(CacheOf(a.key), a.key)
              /\ a.offset + 1 \in 1..Len(CacheOf(a.key)[a.key])
              /\ CacheOf(a.key)[a.key][a.offset + 1].id = a.id
    /\ \A a, b \in served :
          (a.key = b.key /\ a.offset = b.offset /\ a.epoch = b.epoch) => a.id = b.id

\* two calls that both started before the entry existed: one generated it, the
\* other was served from the entry it found
C4_Witness ==
    \E a, b \in served :
        /\ a.key = b.key /\ a.offset = b.offset /\ a.epoch = b.epoch
        /\ a.cold /\ a.miss /\ b.cold /\ ~b.miss

----------------------------------------------------------------------------
(* Claims about the ConversationSheet controller (checked under Spec) *)

MoreInFlight == Cardinality({i \in 1..Len(tasks) : tasks[i].kind = "more"})

Settles == Len(tasks') < Len(tasks)

\* C3. Single flight: at most one loadMoreChatMessages fetch is outstanding at
\* any time, and one is outstanding exactly while the guard is set; a fetch is
\* issued only by a trigger that finds the guard clear; a trigger that finds the
\* guard set issues none and nothing is issued when the guard clears.
C3_SingleFlight ==
    /\ [](MoreInFlight <= 1 /\ (chatLoadingMoreRef <=> MoreInFlight = 1))
    /\ [][MoreInFlight' > MoreInFlight =>
            (~chatLoadingMoreRef /\ last'.op = "loadMore")]_vars
    /\ [][chatLoadingMoreRef => MoreInFlight' <= MoreInFlight]_vars
    /\ [][last'.op = "loadMoreDropped" => tasks' = tasks]_vars

\* a trigger has arrived while a fetch was outstanding and was dropped
C3_Witness ==
    chatLoadingMoreRef /\ MoreInFlight = 1 /\ last.op = "loadMoreDropped"

\* C5 as stated: when the sendMessage call of a send rejects, the input text is
\* the text the user had typed and chatMessages is what it was.
C5_RollbackRestoresTyped ==
    [][(Settles /\ last'.op = "sendFailed") =>
          (inputText' = last'.task[1].typed /\ chatMessages' = chatMessages)]_vars

\* C8 as stated: a task started for a conversation that is no longer the
\* selected one changes neither chatMessages nor chatCursor nor chatHasMore
\* when it settles, and once all tasks have settled every message shown belongs
\* to the selected conversation.
C8_StaleResultsDiscarded ==
    /\ [][(Settles /\ last'.task[1].conversationId # selectedConversation) =>
            UNCHANGED <<chatMessages, chatCursor, chatHasMore>>]_vars
    /\ [](tasks = <<>> =>
            \A i \in 1..Len(chatMessages) :
                chatMessages[i].conversationId = selectedConversation)

\* only the selected conversation has ever been opened or written to
OnlySelected ==
    /\ selectedConversation # Null
    /\ DOMAIN chatCache = {ChatKey(selectedConversation)}
    /\ \A i \in 1..Len(tasks) : tasks[i].conversationId = selectedConversation

IsNewestPart(items, entry) ==
    \E k \in 0..Len(entry) : items = SubSeq(entry, k + 1, Len(entry))

\* C9 as stated: in the history of one conversation, after the open chatMessages
\* is the 20 newest messages of the entry with chatHasMore true, after one
\* completed loadMoreChatMessages it has 40 messages, and after every completed
\* one it is a contiguous newest part of the entry.
C9_HistoryScenario ==
    (OnlySelected /\ ~chatLoading) =>
        LET entry == chatCache[ChatKey(selectedConversation)]
        IN /\ last.op = "opened" =>
                 /\ chatMessages = SubSeq(entry, Len(entry) - 19, Len(entry))
                 /\ chatHasMore
           /\ (last.op = "loadedMore" /\ started = 2) => Len(chatMessages) = 40
           /\ last.op = "loadedMore" => IsNewestPart(chatMessages, entry)

----------------------------------------------------------------------------
(* Claims about single calls of the service (checked under SpecChain) *)

AllResponses == chain.pages \o chain.again \o [i \in 1..Len(chain.probe) |-> chain.probe[i].resp]

\* C14: every page fetchMessagePreviews or fetchChatMessages returns has at
\* most min(count, 20) items, for every count and every cursor
C14_PageSizeCap ==
    \A i \in 1..Len(AllResponses) :
        Len(AllResponses[i].data) <= Min(chain.count, 20)

\* the cursor of the probing call is the decimal string of a number
ProbeOffset == ParseInt(chain.probe[1].cursor.chars)

\* C18: a call whose cursor is larger than the length of the entry returns the
\* page, hasMore and nextCursor of the call whose cursor is that length, in
\* forward mode and in backward mode
C18_OutOfRangeClamped ==
    (/\ chain.probe # <<>>
     /\ Truthy(chain.probe[1].cursor)
     /\ ProbeOffset > Len(ChainEntry)) =>
        chain.probe[1].resp = ChainFetch(Str(ToString(Len(ChainEntry)))).resp

----------------------------------------------------------------------------
(* Claims about sendMessage and clearCache (checked under SpecCache) *)

\* the chat call that settles in this step, if one does
SettledChatCalls ==
    {i \in 1..Len(calls) : calls[i].kind = "chat" /\ calls' = Remove(calls, i)}

ServedIds == {a.id : a \in served}
SentIds == {m.message.id : m \in sent}

\* C15: sendMessage never creates a cache entry. A sendMessage that finds no
\* entry for its conversation returns the new message and leaves the cache as
\* it was; the fetchChatMessages that later creates the entry generates exactly
\* 3 * count messages, none of which is a sent one.
C15_SendNeverCreatesEntry ==
    /\ [][\A m \in sent' \ sent :
            /\ m.message.isSent /\ m.message.text = SentText
            /\ ~m.entry => (chatCache' = chatCache /\ messageCache' = messageCache)]_vars
    /\ [][\A key \in DOMAIN chatCache' \ DOMAIN chatCache :
            /\ \E i \in SettledChatCalls :
                  /\ ChatKey(calls[i].conversationId) = key
                  /\ Len(chatCache'[key]) = 3 * calls[i].count
            /\ Ids(chatCache'[key]) \cap SentIds = {}]_vars
    /\ [](\A m \in sent : \A key \in DOMAIN chatCache :
            (~m.entry /\ m.epoch = epoch) => m.message.id \notin Ids(chatCache[key]))

\* a message was sent to a conversation without an entry and a later fetch has
\* created the entry
C15_Witness ==
    \E m \in sent :
        /\ ~m.entry /\ m.epoch = epoch
        /\ Has(chatCache, ChatKey(m.message.conversationId))

\* C16: clearCache removes every entry of both caches; an entry generated
\* after it, also by a fetch that was in flight when clearCache ran, has
\* identifiers that no earlier call returned
C16_ClearCacheRegenerates ==
    /\ [][epoch' # epoch => (messageCache' = <<>> /\ chatCache' = <<>>)]_vars
    /\ [][\A key \in DOMAIN messageCache' \ DOMAIN messageCache :
            Ids(messageCache'[key]) \cap ServedIds = {}]_vars
    /\ [][\A key \in DOMAIN chatCache' \ DOMAIN chatCache :
            Ids(chatCache'[key]) \cap ServedIds = {}]_vars
    /\ [](\A a, b \in served : a.epoch # b.epoch => a.id # b.id)

\* a fetch that started while the entry of its key existed was in flight when
\* clearCache ran and generated the entry again
C16_Witness ==
    \E a, b \in served :
        /\ a.key = b.key /\ a.offset = b.offset
        /\ a.epoch < b.epoch /\ ~b.cold /\ b.miss

----------------------------------------------------------------------------
(* Claims about sending (checked under Spec) *)

SendsInFlight == Cardinality({i \in 1..Len(tasks) : tasks[i].kind = "send"})

\* a handler ran in this step and recorded op
Ran(op) == last' # last /\ last'.op = op

Returned ==
    SendMessage(chatCache, generated, last'.task[1].conversationId,
                last'.task[1].text).message

\* C13: no optimistic item. Starting a send leaves items as they are; items
\* gains one element when the call resolves, the record sendMessage returned, at
\* the newest end; a send that fails adds nothing.
C13_NoOptimisticItem ==
    /\ [][SendsInFlight' > SendsInFlight => chatMessages' = chatMessages]_vars
    /\ [][(Settles /\ last'.op = "sent") =>
            /\ chatMessages' = Append(chatMessages, Returned)
            /\ Returned.text = last'.task[1].text
            /\ Returned.isSent]_vars
    /\ [][(Settles /\ last'.op = "sendFailed") => chatMessages' = chatMessages]_vars

\* a send has resolved on a list that already held messages
C13_Witness ==
    /\ last.op = "sent"
    /\ Len(chatMessages) > 1
    /\ chatMessages[Len(chatMessages)].id[1] = "id"
    /\ chatMessages[1].id[1] = "msg"

\* C20: send is not gated by the pagination guard. handleSendMessage returns
\* early only for a blank text or a missing conversation, also while a loadMore
\* fetch is in flight; the page of the fetch goes in front of the items and the
\* new message behind them in whichever order the two settle: after an open,
\* one loadMore and one send, items is the 20 older messages, the 20 of the
\* first page and the new message.
C20_SendNotGated ==
    /\ [][Ran("sendDropped") =>
            (Trim(rendered.inputText) = <<>> \/ rendered.selectedConversation = Null)]_vars
    /\ [][(Settles /\ last'.op = "loadedMore") =>
            \E k \in 0..Len(chatMessages') :
                chatMessages' = SubSeq(chatMessages', 1, k) \o chatMessages]_vars
    /\ [][(Settles /\ last'.op = "sent") =>
            chatMessages' = Append(chatMessages, Returned)]_vars
    /\ []((/\ OnlySelected /\ tasks = <<>> /\ started = 3
            /\ Len(chatCache[ChatKey(selectedConversation)]) = 61
            /\ chatCursor = Str(<<"2", "0">>)) =>
              chatMessages = SubSeq(chatCache[ChatKey(selectedConversation)], 21, 61))

\* a send was issued while a loadMore fetch is in flight
C20_Witness ==
    /\ last.op = "send" /\ chatLoadingMoreRef
    /\ MoreInFlight = 1 /\ SendsInFlight = 1

CursorOffset(c) == ParseInt(c.chars)

\* C19: pagination terminates. Each completed loadMore fetch leaves a cursor
\* strictly below the one before it, or none; once hasMore is false a trigger
\* issues no fetch and leaves items, cursor and hasMore as they are.
C19_PaginationTerminates ==
    /\ [][(Settles /\ last'.op = "loadedMore" /\ Truthy(chatCursor)
            /\ last'.task[1].conversationId = selectedConversation) =>
            /\ chatHasMore' <=> Truthy(chatCursor')
            /\ chatHasMore' => CursorOffset(chatCursor') < CursorOffset(chatCursor)]_vars
    /\ [][(~chatHasMore /\ ~chatLoading /\ Len(tasks) = 0) =>
            /\ ~Ran("loadMore")
            /\ Ran("loadMoreDropped") =>
                  UNCHANGED <<chatMessages, chatCursor, chatHasMore, tasks>>]_vars

----------------------------------------------------------------------------
(* Claims about the conversation list (checked under SpecList) *)

ListMoreInFlight ==
    Cardinality({i \in 1..Len(listTasks) : listTasks[i].kind = "more"})

\* C11: at most one loadMore fetch of the list is outstanding at any time, for
\* any interleaving of loadMore triggers with reloads of the list
C11_ListSingleFlight == ListMoreInFlight <= 1

----------------------------------------------------------------------------
(* Claims about the guards of both sheets (checked under SpecPaging) *)

\* C17: guard release. A loadMore of either sheet that set its guard clears it
\* when its fetch settles, resolved or rejected: a set guard is always cleared
\* later, and whenever no loadMore is outstanding the guard is false.
C17_GuardRelease ==
    /\ [](MoreInFlight = 0 => ~chatLoadingMoreRef)
    /\ [](ListMoreInFlight = 0 => ~messagesLoadingRef)
    /\ [][MoreInFlight' < MoreInFlight => ~chatLoadingMoreRef']_vars
    /\ [][ListMoreInFlight' < ListMoreInFlight => ~messagesLoadingRef']_vars
    /\ chatLoadingMoreRef ~> ~chatLoadingMoreRef
    /\ messagesLoadingRef ~> ~messagesLoadingRef

\* a loadMore of the conversation whose fetch rejected has settled
C17_Witness ==
    /\ last.op = "loadMoreFailed"
    /\ ~chatLoadingMoreRef /\ ~chatLoadingMore /\ MoreInFlight = 0

----------------------------------------------------------------------------
(* Claims about interleavings in the conversation sheet (checked under Spec) *)

\* the messages of items that sendMessage made, in their order in items
SentOf(items) == SelectSeq(items, LAMBDA m : m.id[1] = "id")

\* any two messages that stand in both sequences stand in the same order
SameOrder(a, b) ==
    \A i, j \in 1..Len(a) : \A k, l \in 1..Len(b) :
        (i < j /\ a[i].id = b[k].id /\ a[j].id = b[l].id) => k < l

\* C21: for sends in flight at the same time on one conversation, their
\* messages stand in items in the order in which the sendMessage calls
\* resolved, and in the same order in the cache entry of the conversation
C21_CompletionOrder ==
    /\ [][(Settles /\ last'.op = "sent") =>
            /\ SentOf(chatMessages') = Append(SentOf(chatMessages), Returned)
            /\ LET key == ChatKey(last'.task[1].conversationId)
               IN Has(chatCache, key) =>
                      chatCache'[key] = Append(chatCache[key], Returned)]_vars
    /\ [](\A key \in DOMAIN chatCache :
              SameOrder(SentOf(chatMessages), SentOf(chatCache[key])))

\* of two sends on one conversation that were in flight together one has
\* resolved, its message is the last of items and of the entry
C21_Witness ==
    /\ last.op = "sent"
    /\ tasks # <<>> /\ tasks[1].kind = "send"
    /\ tasks[1].conversationId = last.task[1].conversationId
    /\ tasks[1].typed # last.task[1].typed
    /\ Len(SentOf(chatMessages)) = 1
    /\ SentOf(chatCache[ChatKey(selectedConversation)]) = SentOf(chatMessages)

\* C28: no message id occurs twice in chatMessages, after any interleaving of
\* opens, loadMore triggers and sends
C28_NoDuplicateIds == NoDuplicates(chatMessages)

\* the offset the state holds: the cursor, or 0 when there is no more
HeldOffset == IF chatHasMore THEN CursorOffset(chatCursor) ELSE 0

\* C29: with a single conversation, whenever no task is outstanding
\* chatMessages is the slice of the conversation's entry from the offset held
\* in chatCursor (0 when chatHasMore is false) to the end of the entry
C29_ViewMatchesCache ==
    (OnlySelected /\ tasks = <<>>) =>
        LET entry == chatCache[ChatKey(selectedConversation)]
        IN chatMessages = SubSeq(entry, HeldOffset + 1, Len(entry))

OpensInFlight == Cardinality({i \in 1..Len(tasks) : tasks[i].kind = "open"})

\* C26: chatLoading is true exactly while a fetch started by present is
\* outstanding and chatLoadingMore exactly while a loadMore fetch is
\* outstanding, for any interleaving; both are false when no task is outstanding
C26_FlagsFollowTasks ==
    /\ chatLoading <=> OpensInFlight > 0
    /\ chatLoadingMore <=> MoreInFlight > 0

\* the messages of the sends that have resolved for the selected conversation
Confirmed == {s.message : s \in {t \in sent : t.message.conversationId = selectedConversation}}

\* C30: once a send on the selected conversation has resolved, its message is
\* in chatMessages and in the conversation's entry whenever no task is
\* outstanding
C30_ConfirmedNotLost ==
    tasks = <<>> =>
        \A message \in Confirmed :
            /\ message.id \in Ids(chatMessages)
            /\ Has(chatCache, ChatKey(selectedConversation))
            /\ message.id \in Ids(chatCache[ChatKey(selectedConversation)])

----------------------------------------------------------------------------
(* Claims about the cache entries (checked under SpecCache) *)

IsPrefix(a, b) == Len(a) <= Len(b) /\ SubSeq(b, 1, Len(a)) = a

\* every entry the cache holds before the step is a prefix of the entry of
\* the same key after it
GrowsOnly(cache, cacheAfter) ==
    \A key \in DOMAIN cache :
        key \in DOMAIN cacheAfter /\ IsPrefix(cache[key], cacheAfter[key])

\* C24: between two clearCache calls every entry only grows at its end: what
\* an entry held earlier is a prefix of what it holds later; a step in which
\* no sendMessage resolves leaves every existing entry as it is, and a
\* resolving sendMessage adds at most one element, at the end of one entry
C24_AppendOnly ==
    /\ [][epoch' = epoch =>
            /\ GrowsOnly(messageCache, messageCache')
            /\ GrowsOnly(chatCache, chatCache')]_vars
    /\ [][(epoch' = epoch /\ sent' = sent) =>
            /\ \A key \in DOMAIN messageCache : messageCache'[key] = messageCache[key]
            /\ \A key \in DOMAIN chatCache : chatCache'[key] = chatCache[key]]_vars
    /\ [][sent' # sent =>
            /\ messageCache' = messageCache
            /\ DOMAIN chatCache' = DOMAIN chatCache
            /\ \A key \in DOMAIN chatCache :
                  \/ chatCache'[key] = chatCache[key]
                  \/ \E message \in {t.message : t \in sent' \ sent} :
                        chatCache'[key] = Append(chatCache[key], message)]_vars

\* an entry of three generated messages that a fetch created holds a sent
\* message after them
C24_Witness ==
    \E key \in DOMAIN chatCache :
        /\ Len(chatCache[key]) = 4
        /\ chatCache[key][4].id[1] = "id"
        /\ \E item \in served : item.key = key /\ item.miss

\* the messages of an entry that generateChatMessages made
GeneratedOf(items) == SelectSeq(items, LAMBDA m : m.id[1] = "msg")

\* call i of the service settles in this step
Finishes(i) == calls' = Remove(calls, i)

\* C25: the generated size of an entry is fixed by the first fetch. The call
\* of fetchChatMessages that finds no entry for its conversation generates 3
\* times its count messages, a call that finds one leaves it as it is whatever
\* its count; an entry holds the generated messages of one call followed by the
\* sent ones; the preview entry of every count holds 3 * count items
C25_SizeFixedByFirstFetch ==
    /\ [][\A i \in 1..Len(calls) :
            (Finishes(i) /\ calls[i].kind = "chat") =>
                LET key == ChatKey(calls[i].conversationId)
                IN IF Has(chatCache, key)
                   THEN chatCache'[key] = chatCache[key]
                   ELSE Len(chatCache'[key]) = 3 * calls[i].count]_vars
    /\ [](\A key \in DOMAIN chatCache :
            LET entry == chatCache[key]
                size == Len(GeneratedOf(entry))
            IN /\ \E count \in CacheCounts : size = 3 * count
               /\ SubSeq(entry, 1, size) = GeneratedOf(entry)
               /\ \A i, j \in 1..size : entry[i].id[2] = entry[j].id[2])
    /\ [](\A count \in CacheCounts :
            Has(messageCache, PreviewsKey(count)) =>
                Len(messageCache[PreviewsKey(count)]) = 3 * count)

\* an entry generated by a call with count 1 has served a page of two items to
\* a later call with count 2, and still holds three messages
C25_Witness ==
    \E key \in DOMAIN chatCache :
        /\ Len(chatCache[key]) = 3
        /\ Cardinality({item \in served :
                            item.key = key /\ ~item.miss /\ item.epoch = epoch}) = 2

----------------------------------------------------------------------------
(* The chat service with a running clock: time passes between the calls and *)
(* while they wait, and never goes back.                                    *)

\* a millisecond passes
Tick ==
    /\ clock < MaxClock
    /\ clock' = clock + 1
    /\ UNCHANGED <<messageCache, chatCache, generated, variants, chain, resp, calls,
                   served, sent, epoch, started, sheetVars, listVars>>

NextClock ==
    \/ CallFetchChatMessages
    \/ CallSendMessage
    \/ \E i \in 1..Len(calls) : FinishFetchChatMessages(i)
    \/ \E i \in 1..Len(calls) : FinishSendMessage(i)
    \/ Tick

SpecClock == InitCache /\ [][NextClock]_vars

\* C23: after any sequence of fetchChatMessages and sendMessage calls under a
\* clock that never goes back, every conversation's entry is sorted by
\* non-decreasing timestamp, and a sent message is the last element of the
\* entry at the moment it is appended
C23_SortedByTimestamp ==
    /\ [](\A key \in DOMAIN chatCache :
            \A i \in 1..(Len(chatCache[key]) - 1) :
                chatCache[key][i].timestamp <= chatCache[key][i + 1].timestamp)
    /\ [][\A t \in sent' \ sent :
            t.entry =>
                LET entry == chatCache'[ChatKey(t.message.conversationId)]
                IN /\ entry[Len(entry)] = t.message
                   /\ t.message.timestamp = clock]_vars

\* a message was sent in the millisecond in which the entry was generated,
\* after the clock had moved: it has the timestamp of the newest generated one
C23_Witness ==
    \E key \in DOMAIN chatCache :
        LET entry == chatCache[key]
        IN /\ Len(entry) = 4
           /\ entry[4].id[1] = "id"
           /\ entry[4].timestamp = entry[3].timestamp
           /\ entry[4].timestamp > 0
           /\ entry[1].timestamp < entry[2].timestamp

----------------------------------------------------------------------------
(* A backward cursor chain on one conversation with sendMessage calls on the *)
(* same conversation resolving between its fetches.                          *)

InitChainSend == InitChain /\ chain.mode = "backward"

\* a sendMessage on the conversation of the chain resolves
ChainSend ==
    /\ ~chain.done
    /\ started < MaxChainSends
    /\ started' = started + 1
    /\ LET r == SendMessage(chatCache, generated, Conversation, SentText)
       IN /\ chatCache' = r.cache
          /\ generated' = r.generated
          /\ sent' = sent \cup {[message |-> r.message,
                                  entry |-> Has(chatCache, ChatKey(Conversation)),
                                  epoch |-> epoch]}
    /\ UNCHANGED <<messageCache, clock, variants, chain, resp, calls, served, epoch, sheetVars,
                   listVars>>

NextChainSend == ChainNext \/ ChainSend

SpecChainSend == InitChainSend /\ [][NextChainSend]_vars

\* the position of the item with this id in an entry, 0 when it is not there
RECURSIVE IndexOf(_, _)
IndexOf(entry, id) ==
    IF entry = <<>> THEN 0
    ELSE IF entry[Len(entry)].id = id THEN Len(entry)
    ELSE IndexOf(SubSeq(entry, 1, Len(entry) - 1), id)

\* the messages of the entry that are older than the first page of the chain
OlderThanFirstPage ==
    LET entry == chatCache[ChatKey(Conversation)]
    IN SubSeq(entry, 1, IndexOf(entry, chain.pages[1].data[1].id) - 1)

\* the pages the chain fetched with a cursor, each later one placed in front
CursorPages == Concat(Reverse(PageData(Tail(chain.pages))))

\* C22: with sendMessage calls on the conversation resolving anywhere between
\* the fetches of a backward chain, the pages fetched with a cursor are at any
\* time the newest part of the messages older than the first page, and all of
\* them once the chain has ended, each once and in order; no sent message is
\* in a page fetched with a cursor
C22_AppendsKeepChain ==
    (chain.pages # <<>> /\ chain.pages[1].data # <<>>) =>
        /\ IsNewestPart(CursorPages, OlderThanFirstPage)
        /\ chain.done => CursorPages = OlderThanFirstPage
        /\ NoDuplicates(CursorPages)
        /\ \A i \in 1..Len(CursorPages) : CursorPages[i].id[1] = "msg"

\* a chain of three pages has ended on an entry to which two messages were
\* sent after the first page was fetched
C22_Witness ==
    /\ chain.done /\ Len(chain.pages) = 3
    /\ LET entry == chatCache[ChatKey(Conversation)]
           page == chain.pages[1].data
       IN /\ Len(entry) = 3 * chain.count + 2
          /\ entry[Len(entry)].id[1] = "id"
          /\ page[Len(page)].id[1] = "msg"
          /\ Len(OlderThanFirstPage) = 2 * chain.count

----------------------------------------------------------------------------
(* Claims about the items of the conversation list (checked under SpecList) *)

\* the entry of the current itemCount
CurrentPreviews == messageCache[PreviewsKey(itemCount)]

\* the offset the list state holds: the cursor, or the end of the entry when
\* there is no more
ListHeldOffset ==
    IF messagesHasMore THEN CursorOffset(messagesCursor) ELSE Len(CurrentPreviews)

\* C31: for any interleaving of reloads of the list and loadMore triggers,
\* whenever no task is outstanding messages is the first n items of the entry
\* previews-{itemCount}, n being the offset held in messagesCursor (the whole
\* entry when messagesHasMore is false); no item is of an earlier generation
C31_ListIsPrefix ==
    listTasks = <<>> =>
        /\ Has(messageCache, PreviewsKey(itemCount))
        /\ messagesHasMore => Truthy(messagesCursor)
        /\ messages = SubSeq(CurrentPreviews, 1, ListHeldOffset)

----------------------------------------------------------------------------
(* The two ConversationSheet variants side by side: each has its own state  *)
(* and its own service, both get the same presses, text changes, scroll     *)
(* triggers and renders, and their calls settle in the same order.          *)

\* setChatMessages of loadChatMessages
Opened(v, data) == IF v = "inverted" THEN Reverse(data) ELSE data

\* setChatMessages of loadMoreChatMessages
LoadedMore(v, prev, data) ==
    IF v = "inverted" THEN prev \o Reverse(data) ELSE data \o prev

\* mutant: the inverted variant also puts the new message at the end
Sent_AtEnd(v, prev, newMessage) == Append(prev, newMessage)

\* setChatMessages of handleSendMessage
Sent(v, prev, newMessage) ==
    IF v = "inverted" THEN <<newMessage>> \o prev ELSE Append(prev, newMessage)

\* present(conversation) up to the await of loadChatMessages
VPresent(s, conversation) ==
    [s EXCEPT !.started = @ + 1,
              !.selectedConversation = conversation,
              !.chatLoading = TRUE,
              !.chatMessages = <<>>,
              !.chatCursor = Undefined,
              !.tasks = Append(@, Task("open", conversation, Undefined, <<>>, <<>>)),
              !.rendered = [@ EXCEPT !.selectedConversation = conversation,
                                     !.chatLoading = TRUE,
                                     !.chatCursor = Undefined]]

\* the early return of loadMoreChatMessages
VLoadMoreGuard(s) ==
    \/ s.chatLoadingMoreRef
    \/ ~s.rendered.chatHasMore
    \/ ~Truthy(s.rendered.chatCursor)
    \/ s.rendered.selectedConversation = Null

\* the list is on screen and can call loadMoreChatMessages
VListShown(s) == s.presented /\ ~s.rendered.chatLoading

\* loadMoreChatMessages up to its await
VLoadMoreChatMessages(s) ==
    IF ~VListShown(s) \/ VLoadMoreGuard(s)
    THEN s
    ELSE [s EXCEPT !.started = @ + 1,
                   !.chatLoadingMoreRef = TRUE,
                   !.chatLoadingMore = TRUE,
                   !.tasks = Append(@, Task("more", s.rendered.selectedConversation,
                                            s.rendered.chatCursor, <<>>, <<>>))]

\* the early return of handleSendMessage
VSendGuard(s) ==
    Trim(s.rendered.inputText) = <<>> \/ s.rendered.selectedConversation = Null

\* handleSendMessage up to its await
VHandleSendMessage(s) ==
    IF ~s.presented \/ VSendGuard(s)
    THEN s
    ELSE [s EXCEPT !.started = @ + 1,
                   !.inputText = <<>>,
                   !.rendered = [@ EXCEPT !.inputText = <<>>],
                   !.tasks = Append(@, Task("send", s.rendered.selectedConversation,
                                            Undefined, Trim(s.rendered.inputText),
                                            s.rendered.inputText))]

\* onChangeText={setInputText}
VSetInputText(s, text) ==
    IF ~s.presented
    THEN s
    ELSE [s EXCEPT !.inputText = text, !.rendered = [@ EXCEPT !.inputText = text]]

\* what the callbacks of the next render close over
VSnapshot(s) ==
    [selectedConversation |-> s.selectedConversation,
     chatHasMore |-> s.chatHasMore,
     chatCursor |-> s.chatCursor,
     inputText |-> s.inputText,
     chatLoading |-> s.chatLoading]

VRender(s) == [s EXCEPT !.rendered = VSnapshot(s)]

\* loadChatMessages after its await
VResolveLoadChatMessages(v, s, i) ==
    LET r == FetchChatMessages(s.chatCache, s.generated, s.tasks[i].conversationId,
                               CHAT_COUNT, Undefined)
    IN [s EXCEPT !.chatCache = r.cache,
                 !.generated = r.generated,
                 !.chatMessages = Opened(v, r.resp.data),
                 !.chatHasMore = r.resp.hasMore,
                 !.chatCursor = r.resp.nextCursor,
                 !.chatLoading = FALSE,
                 !.presented = TRUE,
                 !.tasks = Remove(@, i)]

\* loadMoreChatMessages after its await
VResolveLoadMoreChatMessages(v, s, i) ==
    LET r == FetchChatMessages(s.chatCache, s.generated, s.tasks[i].conversationId,
                               CHAT_COUNT, s.tasks[i].cursor)
    IN [s EXCEPT !.chatCache = r.cache,
                 !.generated = r.generated,
                 !.chatMessages = LoadedMore(v, @, r.resp.data),
                 !.chatHasMore = r.resp.hasMore,
                 !.chatCursor = r.resp.nextCursor,
                 !.chatLoadingMore = FALSE,
                 !.chatLoadingMoreRef = FALSE,
                 !.tasks = Remove(@, i)]

\* handleSendMessage after its await
VResolveHandleSendMessage(v, s, i) ==
    LET r == SendMessage(s.chatCache, s.generated, s.tasks[i].conversationId,
                         s.tasks[i].text)
    IN [s EXCEPT !.chatCache = r.cache,
                 !.generated = r.generated,
                 !.chatMessages = Sent(v, @, r.message),
                 !.tasks = Remove(@, i)]

\* the call of task i resolves
VResolve(v, s, i) ==
    IF i > Len(s.tasks) THEN s
    ELSE IF s.tasks[i].kind = "open" THEN VResolveLoadChatMessages(v, s, i)
    ELSE IF s.tasks[i].kind = "more" THEN VResolveLoadMoreChatMessages(v, s, i)
    ELSE VResolveHandleSendMessage(v, s, i)

\* the catch block of handleSendMessage
VRejectHandleSendMessage(s, i) ==
    IF i > Len(s.tasks) \/ s.tasks[i].kind # "send" THEN s
    ELSE [s EXCEPT !.inputText = s.tasks[i].text, !.tasks = Remove(@, i)]

\* every variable but variants
otherVars ==
    <<messageCache, chatCache, generated, clock, chain, resp, calls, served, sent,
      epoch, started, sheetVars, listVars>>

\* no run has used up its calls
CanStart == \A v \in Variants : variants[v].started < MaxTasks

BothPresent(conversation) ==
    /\ CanStart
    /\ variants' = [v \in Variants |-> VPresent(variants[v], conversation)]
    /\ UNCHANGED otherVars

BothLoadMoreChatMessages ==
    /\ \E v \in Variants : VListShown(variants[v])
    /\ CanStart
    /\ variants' = [v \in Variants |-> VLoadMoreChatMessages(variants[v])]
    /\ UNCHANGED otherVars

BothHandleSendMessage ==
    /\ \E v \in Variants : variants[v].presented
    /\ CanStart
    /\ variants' = [v \in Variants |-> VHandleSendMessage(variants[v])]
    /\ UNCHANGED otherVars

BothSetInputText(text) ==
    /\ \E v \in Variants : variants[v].presented /\ variants[v].inputText # text
    /\ variants' = [v \in Variants |-> VSetInputText(variants[v], text)]
    /\ UNCHANGED otherVars

BothRender ==
    /\ \E v \in Variants : variants[v].rendered # VSnapshot(variants[v])
    /\ variants' = [v \in Variants |-> VRender(variants[v])]
    /\ UNCHANGED otherVars

\* the i-th outstanding call of each run resolves
BothResolve(i) ==
    /\ \E v \in Variants : i <= Len(variants[v].tasks)
    /\ variants' = [v \in Variants |-> VResolve(v, variants[v], i)]
    /\ UNCHANGED otherVars

\* the i-th outstanding call of each run, a sendMessage, rejects
BothRejectHandleSendMessage(i) ==
    /\ \E v \in Variants :
          i <= Len(variants[v].tasks) /\ variants[v].tasks[i].kind = "send"
    /\ variants' = [v \in Variants |-> VRejectHandleSendMessage(variants[v], i)]
    /\ UNCHANGED otherVars

NextVariants ==
    \/ \E conversation \in Conversations : BothPresent(conversation)
    \/ BothLoadMoreChatMessages
    \/ BothHandleSendMessage
    \/ \E text \in Texts : BothSetInputText(text)
    \/ BothRender
    \/ \E i \in 1..MaxTasks : BothResolve(i)
    \/ \E i \in 1..MaxTasks : BothRejectHandleSendMessage(i)

SpecVariants == Init /\ [][NextVariants]_vars

\* C32: run on the same events with the same resolution order, chatMessages
\* of the inverted variant is at every step the reverse of chatMessages of the
\* chronological variant, and chatCursor, chatHasMore, the guard
\* chatLoadingMoreRef and inputText of the two are equal
C32_VariantsEquivalent ==
    LET c == variants["chronological"]
        n == variants["inverted"]
    IN /\ n.chatMessages = Reverse(c.chatMessages)
       /\ n.chatCursor = c.chatCursor
       /\ n.chatHasMore = c.chatHasMore
       /\ n.chatLoadingMoreRef = c.chatLoadingMoreRef
       /\ n.inputText = c.inputText

\* after an open, a loadMore and a send the chronological variant holds the
\* older page, the first page and the new message, the inverted one the new
\* message first and the oldest message last
C32_Witness ==
    LET c == variants["chronological"]
        n == variants["inverted"]
    IN /\ c.tasks = <<>> /\ n.tasks = <<>>
       /\ Len(c.chatMessages) = 41
       /\ c.chatMessages[41].id[1] = "id"
       /\ n.chatMessages[1] = c.chatMessages[41]
       /\ n.chatMessages[41] = c.chatMessages[1]
       /\ n.chatMessages[41].id[1] = "msg"
====
